---- MODULE Spec2Model ----
(***************************************************************************)
(* The conversation tracker of the OpenAIAPI cog (src/src/openai_api.py)   *)
(* and its ButtonView controls (src/src/button_view.py).                   *)
(*                                                                         *)
(* The cog runs on one asyncio event loop: the code between two awaits is  *)
(* atomic, and at every await another handler may run.  Each action below  *)
(* is one such atomic stretch of a handler.  The provider                  *)
(* (openai.responses.create) and the chat platform (send_followup,         *)
(* message.reply) are collaborators: each call either returns or raises.   *)
(***************************************************************************)
EXTENDS Integers, Sequences, FiniteSets, TLC

(* Bounds of the model. *)
MaxConverse == 2      \* /converse invocations
MaxMessages == 2      \* inbound messages routed to handle_new_message_in_conversation

Users == {"u1", "u2"}
BotUser == "bot"
Channels == {"c1", "c2"}

REASONING_MODELS == {"o4-mini", "o3", "o3-mini", "o1", "o1-mini"}
REASONING_EFFORT_MEDIUM == "medium"

(* The option values /converse is invoked with. *)
ConverseArgs ==
    { [model |-> "gpt-4.1", temperature |-> "0.7", top_p |-> "None"] }

VARIABLES
    conversation_histories, \* the dict, in insertion order: a sequence of ResponseParameters
    views,                  \* the dict author -> ButtonView
    controls,               \* the ButtonViews delivered with a reply, which users can press
    invocations,            \* the /converse invocations; the index is ctx.interaction.id
    tasks,                  \* the runs of handle_new_message_in_conversation
    responses,              \* number of responses the provider has returned (ids 1..responses)
    last,                   \* what the step into this state did, when it was an
                            \* on_message or a button callback; NoEvent otherwise
    call,                   \* the function of util.py / openai_api.py being applied, with
                            \* its arguments; NoCall when none is
    result,                 \* what that function returned; "pending" before it has
    image,                  \* the /generate_image invocation; NoImage when there is none
    speech,                 \* the /text_to_speech and /speech_to_text invocations and the
                            \* files of the host they write
    video                   \* the /generate_video invocation; NoVideo when there is none

(* The state of the conversation tracker. *)
cogVars == <<conversation_histories, views, controls, invocations, tasks, responses, last>>

(* The state of the stateless helpers and of the one-shot commands, which share   *)
(* nothing with the conversation tracker.                                          *)
otherVars == <<call, result, image, speech, video>>

vars == <<conversation_histories, views, controls, invocations, tasks, responses, last,
          call, result, image, speech, video>>

----------------------------------------------------------------------------
(* ResponseParameters.__init__ never setting a reasoning effort. *)
ResponseParametersNoReasoning(model, temperature, top_p, reasoning, starter, id, channel) ==
    [ model |-> model,
      temperature |-> IF model \in REASONING_MODELS THEN "None" ELSE temperature,
      top_p |-> IF model \in REASONING_MODELS THEN "None" ELSE top_p,
      reasoning |-> "None",
      conversation_starter |-> starter,
      conversation_id |-> id,
      channel_id |-> channel,
      paused |-> FALSE,
      previous_response_id |-> 0,
      response_id_history |-> <<>> ]

(* util.py ResponseParameters.__init__ *)
ResponseParameters(model, temperature, top_p, reasoning, starter, id, channel) ==
    [ model |-> model,
      temperature |-> IF model \in REASONING_MODELS THEN "None" ELSE temperature,
      top_p |-> IF model \in REASONING_MODELS THEN "None" ELSE top_p,
      reasoning |-> IF model \in REASONING_MODELS
                    THEN (IF reasoning # "None" THEN reasoning ELSE REASONING_EFFORT_MEDIUM)
                    ELSE "None",
      conversation_starter |-> starter,
      conversation_id |-> id,
      channel_id |-> channel,
      paused |-> FALSE,
      previous_response_id |-> 0,
      response_id_history |-> <<>> ]

(* button_view.py ButtonView.__init__ *)
ButtonView(starter, id) == [conversation_starter |-> starter, conversation_id |-> id]

(* Position of conversation `id` in conversation_histories, 0 when absent. *)
IndexOf(id) ==
    IF \E i \in DOMAIN conversation_histories : conversation_histories[i].conversation_id = id
    THEN CHOOSE i \in DOMAIN conversation_histories : conversation_histories[i].conversation_id = id
    ELSE 0

Registered(id) == IndexOf(id) # 0

(* The check of converse, wrongly skipping paused conversations. *)
ActiveConversationExistsUnpaused(author, channel) ==
    \E i \in DOMAIN conversation_histories :
        /\ conversation_histories[i].conversation_starter = author
        /\ conversation_histories[i].channel_id = channel
        /\ ~conversation_histories[i].paused

(* converse, lines 390-394: the loop that looks for an active conversation of the *)
(* author in the channel                                                          *)
ActiveConversationExists(author, channel) ==
    \E i \in DOMAIN conversation_histories :
        /\ conversation_histories[i].conversation_starter = author
        /\ conversation_histories[i].channel_id = channel

(* The test of on_message, wrongly comparing the channel only. *)
MatchesMessageChannelOnly(conversation, author, channel) ==
    channel = conversation.channel_id

(* on_message, lines 234-237: the test a conversation must pass to receive the message *)
MatchesMessage(conversation, author, channel) ==
    /\ channel = conversation.channel_id
    /\ author = conversation.conversation_starter

(* on_message taking the first conversation of the channel, whoever started it. *)
FirstMatchInChannel(author, channel) ==
    LET hits == { i \in DOMAIN conversation_histories :
                    conversation_histories[i].channel_id = channel }
    IN IF hits = {} THEN 0 ELSE CHOOSE i \in hits : \A j \in hits : i <= j

(* on_message: the first conversation, in dict order, that matches; 0 when none *)
FirstMatch(author, channel) ==
    LET hits == { i \in DOMAIN conversation_histories :
                    MatchesMessage(conversation_histories[i], author, channel) }
    IN IF hits = {} THEN 0 ELSE CHOOSE i \in hits : \A j \in hits : i <= j

NoEvent ==
    [op |-> "none", user |-> "none", channel |-> "none", conversation_id |-> 0, reply |-> "none"]

(* No on_message or button callback is between its outcome and its return. *)
Idle == last = NoEvent

NoCall == [fn |-> "none"]

NoImage == [pc |-> "none"]

(* Number of /text_to_speech and /speech_to_text invocations followed. *)
MaxSpeech == 2

TtsVoices == {"alloy", "echo"}

TtsFormats == {"mp3"}

(* attachment.filename of the audio given to /speech_to_text *)
Filenames == {"a.mp3", "b.mp3"}

(* text_to_speech: Path(__file__).parent / f"{voice}_speech.{response_format}" *)
TtsPath(voice, response_format) == "src/" \o voice \o "_speech." \o response_format

(* speech_to_text: Path(f"/tmp/{attachment.filename}") *)
SttPath(filename) == "/tmp/" \o filename

SpeechPaths ==
    { TtsPath(voice, response_format) : voice \in TtsVoices, response_format \in TtsFormats }
    \cup { SttPath(filename) : filename \in Filenames }

(* No invocation yet and none of the paths exists. `files` maps a path to the    *)
(* file it names (0: no such file); `contents[f]` is the invocation whose bytes  *)
(* file f holds.                                                                *)
NoSpeech == [invocations |-> <<>>, files |-> [path \in SpeechPaths |-> 0], contents |-> <<>>]

NoVideo == [pc |-> "none"]

----------------------------------------------------------------------------
Init ==
    /\ conversation_histories = <<>>
    /\ views = <<>>
    /\ controls = {}
    /\ invocations = <<>>
    /\ tasks = <<>>
    /\ responses = 0
    /\ last = NoEvent
    /\ call = NoCall
    /\ result = "pending"
    /\ image = NoImage
    /\ speech = NoSpeech
    /\ video = NoVideo

----------------------------------------------------------------------------
(* /converse *)

(* Users and channels are interchangeable: the first invocation names them. *)
FirstInvocation(author, channel) ==
    invocations = <<>> => author = "u1" /\ channel = "c1"

(* converse, lines 347-388: the command is invoked and awaits ctx.defer(). *)
ConverseInvoke(author, channel, args) ==
    /\ Idle
    /\ Len(invocations) < MaxConverse
    /\ FirstInvocation(author, channel)
    /\ invocations' = Append(invocations,
          [ author |-> author, channel_id |-> channel, args |-> args,
            pc |-> "deferred", params |-> <<>>, calls |-> 0, reply |-> "none" ])
    /\ UNCHANGED <<conversation_histories, views, controls, tasks, responses>>
    /\ last' = NoEvent

(* converse, lines 390-462: after the defer, the active-conversation check; then *)
(* either the error reply and return, or the parameters are built and the first  *)
(* provider call is issued.                                                      *)
ConverseCheck(i) ==
    /\ Idle
    /\ i \in DOMAIN invocations
    /\ invocations[i].pc = "deferred"
    /\ LET inv == invocations[i] IN
       IF ActiveConversationExists(inv.author, inv.channel_id)
       THEN invocations' = [invocations EXCEPT ![i].pc = "done",
                                               ![i].reply = "already_active"]
       ELSE invocations' = [invocations EXCEPT
              ![i].pc = "provider",
              ![i].calls = @ + 1,
              ![i].params = << ResponseParameters(
                    inv.args.model,
                    IF inv.args.model \notin REASONING_MODELS THEN inv.args.temperature ELSE "None",
                    IF inv.args.model \notin REASONING_MODELS THEN inv.args.top_p ELSE "None",
                    IF inv.args.model \in REASONING_MODELS THEN "medium" ELSE "None",
                    inv.author, i, inv.channel_id) >>]
    /\ UNCHANGED <<conversation_histories, views, controls, tasks, responses>>
    /\ last' = NoEvent

(* converse not recording the first response id in response_id_history. *)
ConverseProviderOkNoHistory(i) ==
    /\ Idle
    /\ i \in DOMAIN invocations
    /\ invocations[i].pc = "provider"
    /\ responses' = responses + 1
    /\ invocations' = [invocations EXCEPT
          ![i].pc = "followup",
          ![i].params = << [ @[1] EXCEPT !.previous_response_id = responses + 1 ] >>]
    /\ views' = (invocations[i].author :> ButtonView(invocations[i].author, i)) @@ views
    /\ UNCHANGED <<conversation_histories, controls, tasks>>
    /\ last' = NoEvent

(* converse, lines 462-494: the provider returns; the response id is stored in   *)
(* params, self.views[ctx.author] is set, and the start reply is being sent.     *)
ConverseProviderOk(i) ==
    /\ Idle
    /\ i \in DOMAIN invocations
    /\ invocations[i].pc = "provider"
    /\ responses' = responses + 1
    /\ invocations' = [invocations EXCEPT
          ![i].pc = "followup",
          ![i].params = << [ @[1] EXCEPT !.previous_response_id = responses + 1,
                                         !.response_id_history = Append(@, responses + 1) ] >>]
    /\ views' = (invocations[i].author :> ButtonView(invocations[i].author, i)) @@ views
    /\ UNCHANGED <<conversation_histories, controls, tasks>>
    /\ last' = NoEvent

(* converse, lines 462, 499-507: the provider call raises; the error reply. *)
ConverseProviderFail(i) ==
    /\ Idle
    /\ i \in DOMAIN invocations
    /\ invocations[i].pc = "provider"
    /\ invocations' = [invocations EXCEPT ![i].pc = "done", ![i].reply = "error"]
    /\ UNCHANGED <<conversation_histories, views, controls, tasks, responses>>
    /\ last' = NoEvent

(* converse, lines 491-497: send_followup returns: the reply with its view is    *)
(* delivered and the conversation is stored under ctx.interaction.id.            *)
ConverseFollowupOk(i) ==
    /\ Idle
    /\ i \in DOMAIN invocations
    /\ invocations[i].pc = "followup"
    /\ controls' = controls \cup { ButtonView(invocations[i].author, i) }
    /\ conversation_histories' = Append(conversation_histories, invocations[i].params[1])
    /\ invocations' = [invocations EXCEPT ![i].pc = "done", ![i].reply = "started",
                                            ![i].params = <<>>]
    /\ UNCHANGED <<views, tasks, responses>>
    /\ last' = NoEvent

(* converse, lines 491, 499-507: send_followup raises; the error reply. *)
ConverseFollowupFail(i) ==
    /\ Idle
    /\ i \in DOMAIN invocations
    /\ invocations[i].pc = "followup"
    /\ invocations' = [invocations EXCEPT ![i].pc = "done", ![i].reply = "error",
                                            ![i].params = <<>>]
    /\ UNCHANGED <<conversation_histories, views, controls, tasks, responses>>
    /\ last' = NoEvent

----------------------------------------------------------------------------
(* Inbound messages *)

Observed(op, user, channel, id, reply) ==
    [op |-> op, user |-> user, channel |-> channel, conversation_id |-> id, reply |-> reply]

(* handle_new_message_in_conversation, lines 93-141: the typing task is created, *)
(* the request is built from the conversation as it is now, and the provider     *)
(* call is issued.                                                               *)
StartHandler(author, channel, conversation) ==
    [ author |-> author, channel_id |-> channel,
      conversation_id |-> conversation.conversation_id,
      request |-> [ model |-> conversation.model,
                    previous_response_id |-> conversation.previous_response_id,
                    temperature |-> conversation.temperature,
                    top_p |-> conversation.top_p,
                    reasoning |-> conversation.reasoning ],
      pc |-> "provider", typing_task |-> "running", calls |-> 1,
      response_id |-> 0, view |-> <<>>, reply |-> "none" ]

(* on_message, lines 218-246 *)
OnMessage(author, channel) ==
    LET m == FirstMatch(author, channel) IN
    /\ Idle
    /\ UNCHANGED <<conversation_histories, views, controls, invocations, responses>>
    /\ IF author = BotUser
       THEN /\ last' = Observed("on_message", author, channel, 0, "ignored_bot")
            /\ UNCHANGED tasks
       ELSE IF m = 0
       THEN /\ last' = Observed("on_message", author, channel, 0, "no_conversation")
            /\ UNCHANGED tasks
       ELSE IF conversation_histories[m].paused
       THEN /\ last' = Observed("on_message", author, channel,
                                conversation_histories[m].conversation_id, "paused")
            /\ UNCHANGED tasks
       ELSE /\ Len(tasks) < MaxMessages
            /\ tasks' = Append(tasks, StartHandler(author, channel, conversation_histories[m]))
            /\ last' = Observed("on_message", author, channel,
                                conversation_histories[m].conversation_id, "handling")

(* handle_new_message_in_conversation, lines 186-188: the finally clause, run on *)
(* every way out of the try statement.                                           *)
Finally(task, exit) == [task EXCEPT !.typing_task = "cancelled", !.pc = exit]

(* lines 141-163: the provider returns; the conversation object takes the new     *)
(* response id, and the reply with self.views[message.author] is being sent.      *)
(* response_text is never empty (line 142), so embeds is not empty at line 155.   *)
(* The                                                                            *)
(* handler holds the conversation object itself: when the conversation has been   *)
(* deleted from the dict meanwhile, the write goes to an object nothing reads.    *)
HandlerProviderOk(t) ==
    /\ Idle
    /\ t \in DOMAIN tasks
    /\ tasks[t].pc = "provider"
    /\ responses' = responses + 1
    /\ LET k == IndexOf(tasks[t].conversation_id) IN
       conversation_histories' =
          IF k = 0 THEN conversation_histories
          ELSE [conversation_histories EXCEPT
                  ![k].previous_response_id = responses + 1,
                  ![k].response_id_history = Append(@, responses + 1)]
    /\ tasks' = [tasks EXCEPT
          ![t].pc = "reply",
          ![t].response_id = responses + 1,
          ![t].view = IF tasks[t].author \in DOMAIN views
                      THEN << views[tasks[t].author] >> ELSE <<>>]
    /\ UNCHANGED <<views, controls, invocations>>
    /\ last' = NoEvent

(* The except clause with the cancellation as its last statement instead of in *)
(* a finally clause: an error reply that raises skips it.                      *)
ExceptCancelLast(task, sent) ==
    IF sent THEN Finally([task EXCEPT !.reply = "error"], "done")
    ELSE [task EXCEPT !.pc = "raised"]

(* lines 176-188: the except clause sends the error reply, which returns        *)
(* (sent = TRUE) or raises in its turn (the exception then leaves the handler);  *)
(* the finally clause runs in both cases.  The await of the error reply touches  *)
(* no state of the cog, so the clause is one step.                               *)
Except(task, sent) ==
    IF sent THEN Finally([task EXCEPT !.reply = "error"], "done")
    ELSE Finally(task, "raised")

(* lines 141, 176-188: the provider call raises. *)
HandlerProviderFail(t, sent) ==
    /\ Idle
    /\ t \in DOMAIN tasks
    /\ tasks[t].pc = "provider"
    /\ tasks' = [tasks EXCEPT ![t] = Except(@, sent)]
    /\ UNCHANGED <<conversation_histories, views, controls, invocations, responses>>
    /\ last' = NoEvent

(* lines 156-164, 186-188: message.reply returns. *)
HandlerReplyOk(t) ==
    /\ Idle
    /\ t \in DOMAIN tasks
    /\ tasks[t].pc = "reply"
    /\ controls' = controls \cup { tasks[t].view[j] : j \in DOMAIN tasks[t].view }
    /\ tasks' = [tasks EXCEPT ![t] = Finally([@ EXCEPT !.reply = "response"], "done")]
    /\ UNCHANGED <<conversation_histories, views, invocations, responses>>
    /\ last' = NoEvent

(* lines 156, 176-188: message.reply raises. *)
HandlerReplyFail(t, sent) ==
    /\ Idle
    /\ t \in DOMAIN tasks
    /\ tasks[t].pc = "reply"
    /\ tasks' = [tasks EXCEPT ![t] = Except(@, sent)]
    /\ UNCHANGED <<conversation_histories, views, controls, invocations, responses>>
    /\ last' = NoEvent

----------------------------------------------------------------------------
(* ButtonView callbacks.  `view` is a delivered ButtonView, `user` is            *)
(* interaction.user.                                                             *)

(* ResponseParameters.__init__ sets no attribute `messages` (util.py 120-150). *)
HasMessages(conversation) == "messages" \in DOMAIN conversation

(* regenerate_button, lines 29-71: what the callback answers.  After the defer   *)
(* of line 43 the callback reads conversation.messages; on a ResponseParameters  *)
(* object that raises AttributeError, which line 67 catches.  (A conversation    *)
(* deleted during the defer raises KeyError at line 46, caught the same way.)    *)
RegenerateOutcome(user, view) ==
    IF user # view.conversation_starter THEN "not_allowed"
    ELSE IF ~Registered(view.conversation_id) THEN "not_found"
    ELSE IF ~HasMessages(conversation_histories[IndexOf(view.conversation_id)])
    THEN "error"
    ELSE "regenerated"

(* regenerate_button, lines 19-71 *)
RegenerateButton(user, view) ==
    /\ Idle
    /\ view \in controls
    /\ LET outcome == RegenerateOutcome(user, view)
           k == IndexOf(view.conversation_id)
       IN
       /\ last' = Observed("regenerate", user, "none", view.conversation_id, outcome)
       /\ IF outcome = "regenerated"
          THEN /\ Len(tasks) < MaxMessages
               /\ conversation_histories' = [conversation_histories EXCEPT
                     ![k].messages = IF Len(@) >= 2 THEN SubSeq(@, 1, Len(@) - 2) ELSE @]
               /\ tasks' = Append(tasks, StartHandler(user, conversation_histories[k].channel_id,
                                                      conversation_histories'[k]))
          ELSE UNCHANGED <<conversation_histories, tasks>>
    /\ UNCHANGED <<views, controls, invocations, responses>>

(* play_pause_button, lines 82-102: what the callback answers. *)
PlayPauseOutcome(user, view) ==
    IF user # view.conversation_starter THEN "not_allowed"
    ELSE IF Registered(view.conversation_id)
    THEN (IF conversation_histories[IndexOf(view.conversation_id)].paused
          THEN "resumed" ELSE "paused")
    ELSE "not_found"

(* play_pause_button, lines 73-102 *)
PlayPauseButton(user, view) ==
    /\ Idle
    /\ view \in controls
    /\ LET outcome == PlayPauseOutcome(user, view)
           k == IndexOf(view.conversation_id)
       IN
       /\ last' = Observed("play_pause", user, "none", view.conversation_id, outcome)
       /\ conversation_histories' =
             IF outcome \in {"paused", "resumed"}
             THEN [conversation_histories EXCEPT ![k].paused = ~@]
             ELSE conversation_histories
    /\ UNCHANGED <<views, controls, invocations, tasks, responses>>

(* stop_button without the check of the user. *)
StopOutcomeAnyUser(user, view) ==
    IF Registered(view.conversation_id) THEN "ended" ELSE "not_found"

(* stop_button looking the conversation up before checking the user. *)
StopOutcomeLookupFirst(user, view) ==
    IF ~Registered(view.conversation_id) THEN "not_found"
    ELSE IF user # view.conversation_starter THEN "not_allowed"
    ELSE "ended"

(* stop_button, lines 113-130: what the callback answers. *)
StopOutcome(user, view) ==
    IF user # view.conversation_starter THEN "not_allowed"
    ELSE IF Registered(view.conversation_id) THEN "ended"
    ELSE "not_found"

(* stop_button, lines 104-130.  button.disabled is set on the view object only; *)
(* no message is edited, so the control stays pressable.                        *)
StopButton(user, view) ==
    /\ Idle
    /\ view \in controls
    /\ LET outcome == StopOutcome(user, view) IN
       /\ last' = Observed("stop", user, "none", view.conversation_id, outcome)
       /\ conversation_histories' =
             IF outcome = "ended"
             THEN SelectSeq(conversation_histories,
                            LAMBDA c : c.conversation_id # view.conversation_id)
             ELSE conversation_histories
    /\ UNCHANGED <<views, controls, invocations, tasks, responses>>

----------------------------------------------------------------------------
(* The on_message or button callback whose outcome `last` holds returns.  Between *)
(* the outcome and the return the callback only awaits the delivery of its own   *)
(* reply and touches no state of the cog, so no other step is placed in between. *)
CallbackReturns ==
    /\ last # NoEvent
    /\ last' = NoEvent
    /\ UNCHANGED <<conversation_histories, views, controls, invocations, tasks, responses>>

Next ==
    \/ \E u \in Users, c \in Channels, a \in ConverseArgs :
          ConverseInvoke(u, c, a) /\ UNCHANGED otherVars
    \/ \E i \in DOMAIN invocations : ConverseCheck(i) /\ UNCHANGED otherVars
    \/ \E i \in DOMAIN invocations : ConverseProviderOk(i) /\ UNCHANGED otherVars
    \/ \E i \in DOMAIN invocations : ConverseProviderFail(i) /\ UNCHANGED otherVars
    \/ \E i \in DOMAIN invocations : ConverseFollowupOk(i) /\ UNCHANGED otherVars
    \/ \E i \in DOMAIN invocations : ConverseFollowupFail(i) /\ UNCHANGED otherVars
    \/ \E u \in Users \cup {BotUser}, c \in Channels : OnMessage(u, c) /\ UNCHANGED otherVars
    \/ \E t \in DOMAIN tasks : HandlerProviderOk(t) /\ UNCHANGED otherVars
    \/ \E t \in DOMAIN tasks, sent \in BOOLEAN :
          HandlerProviderFail(t, sent) /\ UNCHANGED otherVars
    \/ \E t \in DOMAIN tasks : HandlerReplyOk(t) /\ UNCHANGED otherVars
    \/ \E t \in DOMAIN tasks, sent \in BOOLEAN :
          HandlerReplyFail(t, sent) /\ UNCHANGED otherVars
    \/ \E u \in Users, v \in controls : RegenerateButton(u, v) /\ UNCHANGED otherVars
    \/ \E u \in Users, v \in controls : PlayPauseButton(u, v) /\ UNCHANGED otherVars
    \/ \E u \in Users, v \in controls : StopButton(u, v) /\ UNCHANGED otherVars
    \/ CallbackReturns /\ UNCHANGED otherVars

Spec == Init /\ [][Next]_vars

----------------------------------------------------------------------------
(* /generate_image (openai_api.py 510-762).  The command reads and writes no      *)
(* state of the cog, so one invocation is followed on its own.                    *)

MaxData == 2          \* items in response.data of the image provider

(* The choices of the command's options (lines 515-568); n is a free integer. *)
ImageModels == {"gpt-image-1", "gpt-image-1-mini", "dall-e-3", "dall-e-2"}
ImageCounts == {1, 2, 10, 11}
ImageQualities == {"low", "medium", "high", "auto", "standard", "hd"}
ImageSizes == {"256x256", "512x512", "1024x1024", "1024x1792", "1792x1024"}
ImageStyles == {"vivid", "natural"}

(* ImageGenerationParameters storing the response_format for every model. *)
ImageGenerationParametersAnyFormat(model, n, quality, size, style, response_format) ==
    [ model |-> model,
      n |-> n,
      quality |-> IF quality = "medium"
                  THEN (IF model = "dall-e-3" THEN "hd"
                        ELSE IF model = "dall-e-2" THEN "standard"
                        ELSE quality)
                  ELSE quality,
      size |-> size,
      style |-> style,
      response_format |-> response_format ]

(* util.py ImageGenerationParameters.__init__ *)
ImageGenerationParameters(model, n, quality, size, style, response_format) ==
    [ model |-> model,
      n |-> n,
      quality |-> IF quality = "medium"
                  THEN (IF model = "dall-e-3" THEN "hd"
                        ELSE IF model = "dall-e-2" THEN "standard"
                        ELSE quality)
                  ELSE quality,
      size |-> size,
      style |-> style,
      response_format |-> IF model \in {"dall-e-2", "dall-e-3"} /\ response_format # "None"
                          THEN response_format ELSE "None" ]

(* util.py ImageGenerationParameters.to_dict: the payload holds a key only when  *)
(* its value is not None (prompt, which the model leaves out, model and n always).*)
ImageToDict(params) ==
    LET optional == {"quality", "size", "style", "response_format"}
        present == { k \in optional : params[k] # "None" }
    IN [ k \in {"model", "n"} \cup present |-> params[k] ]

(* The guard clauses without the two checks of the size. *)
ImageGuardCountsOnly(model, n, size) ==
    IF (model = "dall-e-2" /\ n > 10) \/ (model = "dall-e-3" /\ n > 1)
    THEN "too_many_images"
    ELSE "none"

(* generate_image, lines 609-637: the guard clauses; the error they answer with, *)
(* "none" when the arguments pass.                                               *)
ImageGuard(model, n, size) ==
    IF (model = "dall-e-2" /\ n > 10) \/ (model = "dall-e-3" /\ n > 1)
    THEN "too_many_images"
    ELSE IF model = "dall-e-2" /\ size \in {"1024x1792", "1792x1024"}
    THEN "dall-e-2_size"
    ELSE IF model = "dall-e-3" /\ size \in {"256x256", "512x512"}
    THEN "dall-e-3_size"
    ELSE "none"

(* generate_image, lines 639-672: the arguments after the removal of unsupported *)
(* parameters, as ImageGenerationParameters takes them.                          *)
ImageRequest(model, n, quality, size, style) ==
    LET gpt == model \in {"gpt-image-1", "gpt-image-1-mini"}
        style1 == IF model = "dall-e-2" \/ gpt THEN "None" ELSE style
        quality1 == IF model = "dall-e-2" THEN "None" ELSE quality
        quality2 == IF model = "dall-e-3" /\ quality1 \notin {"standard", "hd"}
                    THEN "hd" ELSE quality1
        quality3 == IF gpt /\ quality2 \notin {"low", "medium", "high", "auto"}
                    THEN "medium" ELSE quality2
        response_format == IF model \in {"dall-e-2", "dall-e-3"} THEN "url" ELSE "None"
    IN ImageToDict(ImageGenerationParameters(model, n, quality3, size, style1,
                                             response_format))

(* lines 570-607: the command is invoked and awaits ctx.defer(). *)
GenerateImageInvoke(model, n, quality, size, style) ==
    /\ image = NoImage
    /\ image' = [ pc |-> "deferred", model |-> model, n |-> n, quality |-> quality,
                  size |-> size, style |-> style, calls |-> 0, request |-> <<>>,
                  files |-> 0, replies |-> <<>>, send_failures |-> 0 ]
    /\ UNCHANGED <<cogVars, call, result, speech, video>>

(* A send_followup of `reply`, which returns (sent) or raises. *)
Followup(invocation, reply, sent) ==
    IF sent THEN [invocation EXCEPT !.replies = Append(@, reply)]
    ELSE [invocation EXCEPT !.send_failures = @ + 1]

(* lines 609-689: after the defer, the guard clauses answer with an error and    *)
(* return (outside any try statement), or the request is built and the provider  *)
(* call is issued.                                                               *)
GenerateImageCheck(sent) ==
    /\ image.pc = "deferred"
    /\ LET guard == ImageGuard(image.model, image.n, image.size) IN
       IF guard # "none"
       THEN image' = [Followup(image, "error", sent) EXCEPT !.pc = "done"]
       ELSE /\ sent
            /\ image' = [image EXCEPT
                  !.pc = "provider",
                  !.calls = @ + 1,
                  !.request = << ImageRequest(image.model, image.n, image.quality,
                                              image.size, image.style) >>]
    /\ UNCHANGED <<cogVars, call, result, speech, video>>

(* lines 757-762: the except clause answers with one error reply; when that send *)
(* raises, the exception leaves the command.                                     *)
ImageExcept(invocation, sent) == [Followup(invocation, "error", sent) EXCEPT !.pc = "done"]

(* lines 689, 757-762: images.generate raises. *)
GenerateImageProviderFail(sent) ==
    /\ image.pc = "provider"
    /\ image' = ImageExcept(image, sent)
    /\ UNCHANGED <<cogVars, call, result, speech, video>>

(* What response.data may hold: every item carries a url, a b64_json or neither; *)
(* fetching a url gives status 200, another status, or raises; decoding a        *)
(* b64_json succeeds or raises (and is skipped, lines 729-731).                  *)
ImageItems ==
    { [kind |-> "url", fetch |-> "ok"], [kind |-> "url", fetch |-> "skipped"],
      [kind |-> "url", fetch |-> "raises"],
      [kind |-> "b64_json", fetch |-> "ok"], [kind |-> "b64_json", fetch |-> "skipped"],
      [kind |-> "none", fetch |-> "skipped"] }

ImageData == UNION { [1..k -> ImageItems] : k \in 0..MaxData }

(* lines 689-762: images.generate returns `data`.  The files are collected; then *)
(* the reply is sent, or an exception takes the command to the except clause.    *)
(* When no item carries a url or a b64_json, the if statement of line 702 has no *)
(* else branch and the command returns without any reply.  The awaits in between *)
(* touch nothing but the command's locals, so this is one step.                  *)
GenerateImageProviderOk(data, sent, error_sent) ==
    /\ image.pc = "provider"
    /\ LET found == { k \in DOMAIN data : data[k].kind # "none" }
           image_files == { k \in found : data[k].fetch = "ok" }
           collected == [image EXCEPT !.files = Cardinality(image_files)]
       IN
       IF found = {}
       THEN /\ sent /\ error_sent
            /\ image' = [image EXCEPT !.pc = "done"]
       ELSE IF (\E k \in found : data[k].fetch = "raises") \/ image_files = {}
       THEN /\ sent
            /\ image' = ImageExcept(image, error_sent)
       ELSE IF sent
       THEN /\ error_sent
            /\ image' = [Followup(collected, "images", TRUE) EXCEPT !.pc = "done"]
       ELSE image' = ImageExcept(Followup(collected, "images", FALSE), error_sent)
    /\ UNCHANGED <<cogVars, call, result, speech, video>>

NextImage ==
    \/ \E model \in ImageModels, n \in ImageCounts, quality \in ImageQualities,
          size \in ImageSizes, style \in ImageStyles :
          GenerateImageInvoke(model, n, quality, size, style)
    \/ \E sent \in BOOLEAN : GenerateImageCheck(sent)
    \/ \E sent \in BOOLEAN : GenerateImageProviderFail(sent)
    \/ \E data \in ImageData, sent \in BOOLEAN, error_sent \in BOOLEAN :
          GenerateImageProviderOk(data, sent, error_sent)

SpecImage == Init /\ [][NextImage]_vars

----------------------------------------------------------------------------
(* The conversation tracker followed for one user in one channel, over the models *)
(* and sampling options /converse can be given.                                   *)

(* converse, lines 284-310 and 357-358: a non-reasoning and a reasoning model of  *)
(* the choices, with temperature and top_p given or left unset.                   *)
ParamArgs ==
    { [model |-> "gpt-4.1", temperature |-> "0.7", top_p |-> "None"],
      [model |-> "gpt-4o", temperature |-> "None", top_p |-> "0.9"],
      [model |-> "o3", temperature |-> "0.7", top_p |-> "0.9"],
      [model |-> "o1", temperature |-> "None", top_p |-> "None"] }

(* util.py ResponseParameters.to_dict, for the fields the model keeps: a key is   *)
(* in the payload only when its value is set.                                     *)
ResponseToDict(params) ==
    LET present == { k \in {"temperature", "top_p", "reasoning"} : params[k] # "None" }
                   \cup (IF params.previous_response_id # 0
                         THEN {"previous_response_id"} ELSE {})
    IN [ k \in {"model"} \cup present |-> params[k] ]

NextParams ==
    \/ \E a \in ParamArgs : ConverseInvoke("u1", "c1", a) /\ UNCHANGED otherVars
    \/ \E i \in DOMAIN invocations : ConverseCheck(i) /\ UNCHANGED otherVars
    \/ \E i \in DOMAIN invocations : ConverseProviderOk(i) /\ UNCHANGED otherVars
    \/ \E i \in DOMAIN invocations : ConverseProviderFail(i) /\ UNCHANGED otherVars
    \/ \E i \in DOMAIN invocations : ConverseFollowupOk(i) /\ UNCHANGED otherVars
    \/ \E i \in DOMAIN invocations : ConverseFollowupFail(i) /\ UNCHANGED otherVars
    \/ \E u \in {"u1", BotUser} : OnMessage(u, "c1") /\ UNCHANGED otherVars
    \/ \E t \in DOMAIN tasks : HandlerProviderOk(t) /\ UNCHANGED otherVars
    \/ \E t \in DOMAIN tasks, sent \in BOOLEAN :
          HandlerProviderFail(t, sent) /\ UNCHANGED otherVars
    \/ \E t \in DOMAIN tasks : HandlerReplyOk(t) /\ UNCHANGED otherVars
    \/ \E t \in DOMAIN tasks, sent \in BOOLEAN :
          HandlerReplyFail(t, sent) /\ UNCHANGED otherVars
    \/ \E v \in controls : RegenerateButton("u1", v) /\ UNCHANGED otherVars
    \/ \E v \in controls : PlayPauseButton("u1", v) /\ UNCHANGED otherVars
    \/ \E v \in controls : StopButton("u1", v) /\ UNCHANGED otherVars
    \/ CallbackReturns /\ UNCHANGED otherVars

SpecParams == Init /\ [][NextParams]_vars

----------------------------------------------------------------------------
(* The helper functions: chunk_text and ChatCompletionParameters of util.py and  *)
(* append_response_embeds of openai_api.py.  A text is the sequence of its        *)
(* characters.  The texts given to append_response_embeds are too long to range   *)
(* over an alphabet: the k-th character of a response text is the number k, the   *)
(* k-th character of the truncation notice is -k, and the characters of the       *)
(* descriptions already in the list are 0.                                        *)

MaxLen == 4           \* length of the texts given to chunk_text
MaxSize == 3          \* chunk sizes given to chunk_text
MaxText == 7000       \* length of the response texts given to append_response_embeds
TextStep == 500       \* the response lengths tried are the multiples of TextStep ...
MaxDescription == 5950 \* length of the description of the first embed already in the list
DescriptionStep == 50 \* the description lengths tried are the multiples of DescriptionStep

CHUNK_TEXT_SIZE == 3500

(* len of the literal of openai_api.py line 47 *)
NoticeLength == 64

TruncationNotice == [k \in 1..NoticeLength |-> 0 - k]

Min(a, b) == IF a < b THEN a ELSE b

Max(a, b) == IF a > b THEN a ELSE b

(* Python's s[start:stop] for start >= 0 and any stop: a negative stop counts    *)
(* from the end, and both ends are clamped to the sequence.                      *)
PySlice(s, start, stop) ==
    LET end == IF stop < 0 THEN Max(Len(s) + stop, 0) ELSE Min(stop, Len(s))
    IN SubSeq(s, start + 1, end)

(* chunk_text, line 300: the slices text[i : i + size] for i in                  *)
(* range(i, len(text), size)                                                     *)
RECURSIVE ChunksFrom(_, _, _)
ChunksFrom(text, i, size) ==
    IF i >= Len(text) THEN <<>>
    ELSE <<PySlice(text, i, i + size)>> \o ChunksFrom(text, i + size, size)

(* chunk_text dropping a last slice shorter than size. *)
chunk_text_whole(text, size) ==
    SelectSeq(ChunksFrom(text, 0, size), LAMBDA chunk : Len(chunk) = size)

(* util.py chunk_text *)
chunk_text(text, size) == ChunksFrom(text, 0, size)

Embed(title, description) == [title |-> title, description |-> description]

(* append_response_embeds, lines 36-38 *)
RECURSIVE current_total(_)
current_total(embeds) ==
    IF embeds = <<>> THEN 0
    ELSE Len(Head(embeds).description) + Len(Head(embeds).title)
         + current_total(Tail(embeds))

(* The remaining budget computed without the embeds already in the list. *)
remaining_chars_of_empty_list(embeds) == 6000 - 100

(* append_response_embeds, lines 39-41 *)
remaining_chars(embeds) == 6000 - current_total(embeds) - 100

(* Every appended embed titled "Response". *)
ResponseTitlePlain(index) == "Response"

(* append_response_embeds, line 54: the conditional expression binds weaker than *)
(* the +, so the title is "Response (Part N)" for N > 1 and "Response" for 1.     *)
ResponseTitle(index) ==
    IF index > 1 THEN "Response" \o (" (Part " \o ToString(index) \o ")") ELSE "Response"

(* append_response_embeds, lines 33-58; returns the list as the call leaves it. *)
append_response_embeds(embeds, response_text) ==
    LET truncated ==
            IF Len(response_text) > remaining_chars(embeds)
            THEN PySlice(response_text, 0, remaining_chars(embeds) - 50) \o TruncationNotice
            ELSE response_text
        chunks == chunk_text(truncated, CHUNK_TEXT_SIZE)
    IN embeds \o [index \in 1..Len(chunks) |-> Embed(ResponseTitle(index), chunks[index])]

(* ChatCompletionParameters ignoring the model. *)
ChatCompletionParametersAsPassed(model, temperature, top_p) ==
    [ model |-> model, temperature |-> temperature, top_p |-> top_p ]

(* util.py ChatCompletionParameters.__init__, lines 56-63 *)
ChatCompletionParameters(model, temperature, top_p) ==
    IF model \in REASONING_MODELS
    THEN [ model |-> model, temperature |-> "1.0", top_p |-> "None" ]
    ELSE [ model |-> model, temperature |-> temperature, top_p |-> top_p ]

(* util.py ChatCompletionParameters.to_dict, lines 79-94, for the fields the     *)
(* model keeps                                                                   *)
ChatToDict(params) ==
    [ k \in {"model"} \cup { j \in {"temperature", "top_p"} : params[j] # "None" }
        |-> params[k] ]

(* The inputs. *)
Chars == {"a", "b"}

Texts == UNION { [1..n -> Chars] : n \in 0..MaxLen }

ResponseText(n) == [k \in 1..n |-> k]

Description(n) == [k \in 1..n |-> 0]

(* The lists append_response_embeds is given: empty by the message handler       *)
(* (lines 94, 150); by converse the "Conversation Started" embed, followed by an *)
(* "Attachment" embed when the prompt has an attachment (lines 472-487).         *)
ExistingEmbeds ==
    LET started == { <<Embed("Conversation Started", Description(n))>> :
                        n \in { d \in 0..MaxDescription : d % DescriptionStep = 0 } }
        attached == { e \o <<Embed("Attachment", Description(Len("Attachment")))>> :
                        e \in started }
    IN { e \in {<<>>} \cup started \cup attached : current_total(e) <= 6000 }

(* ... and the lengths one below, at and one above the budget of the list.       *)
TextLengths(embeds) ==
    LET budget == 6000 - current_total(embeds) - 100
    IN { n \in 0..MaxText : n % TextStep = 0 }
       \cup ({budget - 1, budget, budget + 1} \cap (0..MaxText))

ChatModels == REASONING_MODELS \cup {"gpt-5.2", "gpt-4.1"}

Temperatures == {"None", "0.0", "0.7", "1.0"}

TopPs == {"None", "0.9", "1.0"}

ChunkText(text, size) ==
    /\ call = NoCall
    /\ call' = [fn |-> "chunk_text", text |-> text, size |-> size]
    /\ result' = chunk_text(text, size)
    /\ UNCHANGED <<cogVars, image, speech, video>>

AppendResponseEmbeds(embeds, response_text) ==
    /\ call = NoCall
    /\ call' = [fn |-> "append_response_embeds", embeds |-> embeds,
                response_text |-> response_text]
    /\ result' = append_response_embeds(embeds, response_text)
    /\ UNCHANGED <<cogVars, image, speech, video>>

ChatCompletionToDict(model, temperature, top_p) ==
    /\ call = NoCall
    /\ call' = [fn |-> "ChatCompletionParameters.to_dict", model |-> model,
                temperature |-> temperature, top_p |-> top_p]
    /\ result' = ChatToDict(ChatCompletionParameters(model, temperature, top_p))
    /\ UNCHANGED <<cogVars, image, speech, video>>

(* converse, lines 404-462: the payload of the first provider call,              *)
(* params.to_dict(), with the instructions and input keys that ResponseToDict     *)
(* leaves out: to_dict adds each when its value is truthy (util.py 158-161).      *)
ConverseFirstRequest(prompt, persona, model, temperature, top_p, attachment) ==
    LET input_content ==
            IF attachment # "None"
            THEN << [type |-> "text", text |-> prompt],
                    [type |-> "image_url", image_url |-> attachment] >>
            ELSE prompt
        params == ResponseParameters(
                    model,
                    IF model \notin REASONING_MODELS THEN temperature ELSE "None",
                    IF model \notin REASONING_MODELS THEN top_p ELSE "None",
                    IF model \in REASONING_MODELS THEN "medium" ELSE "None",
                    "u1", 1, "c1")
        instructions == IF persona # "" THEN [instructions |-> persona] ELSE <<>>
        input == IF attachment # "None" \/ prompt # ""
                 THEN [input |-> input_content] ELSE <<>>
    IN ResponseToDict(params) @@ instructions @@ input

Prompts == {"hello", ""}

Personas == {"You are a helpful assistant.", "You are a pirate.", ""}

Attachments == {"None", "https://cdn/a.png"}

ConverseRequest(prompt, persona, model, temperature, top_p, attachment) ==
    /\ call = NoCall
    /\ call' = [fn |-> "converse", prompt |-> prompt, persona |-> persona, model |-> model,
                temperature |-> temperature, top_p |-> top_p, attachment |-> attachment]
    /\ result' = ConverseFirstRequest(prompt, persona, model, temperature, top_p, attachment)
    /\ UNCHANGED <<cogVars, image, speech, video>>

(* The models ImageGenerationParameters is built for: the choices of             *)
(* /generate_image and the default of the class (util.py 184).                   *)
ImageParameterModels == ImageModels \cup {"gpt-image-1.5"}

ImageFormats == {"None", "url", "b64_json"}

ImageParametersToDict(model, n, quality, size, style, response_format) ==
    /\ call = NoCall
    /\ call' = [fn |-> "ImageGenerationParameters.to_dict", model |-> model, n |-> n,
                quality |-> quality, size |-> size, style |-> style,
                response_format |-> response_format]
    /\ result' = [ params |-> ImageGenerationParameters(model, n, quality, size, style,
                                                        response_format),
                   payload |-> ImageToDict(ImageGenerationParameters(
                                   model, n, quality, size, style, response_format)) ]
    /\ UNCHANGED <<cogVars, image, speech, video>>

NextUtil ==
    \/ \E text \in Texts, size \in 1..MaxSize : ChunkText(text, size)
    \/ \E embeds \in ExistingEmbeds :
          \E n \in TextLengths(embeds) : AppendResponseEmbeds(embeds, ResponseText(n))
    \/ \E model \in ChatModels, temperature \in Temperatures, top_p \in TopPs :
          ChatCompletionToDict(model, temperature, top_p)
    \/ \E prompt \in Prompts, persona \in Personas, model \in ChatModels,
          temperature \in Temperatures, top_p \in TopPs, attachment \in Attachments :
          ConverseRequest(prompt, persona, model, temperature, top_p, attachment)
    \/ \E model \in ImageParameterModels, quality \in ImageQualities \cup {"None"},
          size \in {"None", "1024x1024"}, style \in {"None", "vivid"},
          response_format \in ImageFormats :
          ImageParametersToDict(model, 1, quality, size, style, response_format)

SpecUtil == Init /\ [][NextUtil]_vars

----------------------------------------------------------------------------
(* /text_to_speech and /speech_to_text *)

(* write_to_file / write_bytes: opening for writing creates the file when the   *)
(* path names none and truncates the file it names otherwise.                   *)
WriteFile(disk, path, i) ==
    IF disk.files[path] = 0
    THEN [disk EXCEPT !.contents = Append(@, i),
                      !.files[path] = Len(disk.contents) + 1]
    ELSE [disk EXCEPT !.contents[disk.files[path]] = i]

(* The finally clause: unlink the path when speech_file_path is set and exists. *)
SpeechFinally(disk, i) ==
    LET inv == disk.invocations[i]
    IN IF inv.speech_file_path /\ disk.files[inv.path] # 0
       THEN [disk EXCEPT !.files[inv.path] = 0]
       ELSE disk

(* await ctx.defer(), up to the first provider or download call *)
TextToSpeechInvoke(voice, response_format) ==
    /\ Len(speech.invocations) < MaxSpeech
    /\ speech' = [speech EXCEPT !.invocations = Append(@,
           [fn |-> "text_to_speech", path |-> TtsPath(voice, response_format),
            pc |-> "provider", speech_file_path |-> FALSE, file |-> 0,
            replies |-> <<>>])]
    /\ UNCHANGED <<cogVars, call, result, image, video>>

SpeechToTextInvoke(filename) ==
    /\ Len(speech.invocations) < MaxSpeech
    /\ speech' = [speech EXCEPT !.invocations = Append(@,
           [fn |-> "speech_to_text", path |-> SttPath(filename),
            pc |-> "download", speech_file_path |-> FALSE, file |-> 0,
            replies |-> <<>>])]
    /\ UNCHANGED <<cogVars, call, result, image, video>>

(* audio.speech.create returned: the file is written and File(speech_file_path) *)
(* opens it; the handler then awaits send_followup.                             *)
TextToSpeechProviderOk(i) ==
    /\ i \in DOMAIN speech.invocations
    /\ speech.invocations[i].fn = "text_to_speech"
    /\ speech.invocations[i].pc = "provider"
    /\ LET written == WriteFile(speech, speech.invocations[i].path, i)
       IN speech' = [written EXCEPT
             !.invocations[i].speech_file_path = TRUE,
             !.invocations[i].file = written.files[speech.invocations[i].path],
             !.invocations[i].pc = "send"]
    /\ UNCHANGED <<cogVars, call, result, image, video>>

(* The attachment was downloaded: the file is written and the handler awaits the *)
(* transcription or translation.                                                *)
SpeechToTextDownloadOk(i) ==
    /\ i \in DOMAIN speech.invocations
    /\ speech.invocations[i].pc = "download"
    /\ speech' = [WriteFile(speech, speech.invocations[i].path, i) EXCEPT
          !.invocations[i].speech_file_path = TRUE,
          !.invocations[i].pc = "provider"]
    /\ UNCHANGED <<cogVars, call, result, image, video>>

(* The transcription returned: File(speech_file_path) opens the path, which      *)
(* raises when no file has that name.                                           *)
SpeechToTextProviderOk(i) ==
    /\ i \in DOMAIN speech.invocations
    /\ speech.invocations[i].fn = "speech_to_text"
    /\ speech.invocations[i].pc = "provider"
    /\ speech' = IF speech.files[speech.invocations[i].path] = 0
                 THEN [speech EXCEPT !.invocations[i].pc = "except"]
                 ELSE [speech EXCEPT
                         !.invocations[i].file = speech.files[speech.invocations[i].path],
                         !.invocations[i].pc = "send"]
    /\ UNCHANGED <<cogVars, call, result, image, video>>

(* The download, the provider call or the send raised: the except clause. *)
SpeechFail(i) ==
    /\ i \in DOMAIN speech.invocations
    /\ speech.invocations[i].pc \in {"download", "provider", "send"}
    /\ speech' = [speech EXCEPT !.invocations[i].pc = "except"]
    /\ UNCHANGED <<cogVars, call, result, image, video>>

(* send_followup delivered the opened file, then the finally clause. *)
SpeechSendOk(i) ==
    /\ i \in DOMAIN speech.invocations
    /\ speech.invocations[i].pc = "send"
    /\ speech' = SpeechFinally(
          [speech EXCEPT
             !.invocations[i].replies =
                 Append(@, [kind |-> "file",
                            content |-> speech.contents[speech.invocations[i].file]]),
             !.invocations[i].pc = "done"], i)
    /\ UNCHANGED <<cogVars, call, result, image, video>>

(* The error reply of the except clause was delivered or raised, then the       *)
(* finally clause.                                                              *)
SpeechExcept(i, sent) ==
    /\ i \in DOMAIN speech.invocations
    /\ speech.invocations[i].pc = "except"
    /\ speech' = SpeechFinally(
          [speech EXCEPT
             !.invocations[i].replies =
                 IF sent THEN Append(@, [kind |-> "error", content |-> 0]) ELSE @,
             !.invocations[i].pc = "done"], i)
    /\ UNCHANGED <<cogVars, call, result, image, video>>

NextSpeech ==
    \/ \E voice \in TtsVoices, response_format \in TtsFormats :
          TextToSpeechInvoke(voice, response_format)
    \/ \E filename \in Filenames : SpeechToTextInvoke(filename)
    \/ \E i \in 1..MaxSpeech : TextToSpeechProviderOk(i)
    \/ \E i \in 1..MaxSpeech : SpeechToTextDownloadOk(i)
    \/ \E i \in 1..MaxSpeech : SpeechToTextProviderOk(i)
    \/ \E i \in 1..MaxSpeech : SpeechFail(i)
    \/ \E i \in 1..MaxSpeech : SpeechSendOk(i)
    \/ \E i \in 1..MaxSpeech, sent \in BOOLEAN : SpeechExcept(i, sent)

SpecSpeech == Init /\ [][NextSpeech]_vars

----------------------------------------------------------------------------
(* /generate_video *)

max_polls == 60

(* The statuses of a video job; "cancelled" stands for any status the code does *)
(* not name.                                                                    *)
VideoStatuses == {"queued", "in_progress", "completed", "failed", "cancelled"}

(* The polling loop entered without the check of poll_count against max_polls. *)
VideoLoopNoLimit(v) ==
    IF v.status \in {"queued", "in_progress"}
    THEN [v EXCEPT !.pc = "retrieve"]
    ELSE IF v.status = "failed" THEN [v EXCEPT !.pc = "except"]
    ELSE IF v.status # "completed" THEN [v EXCEPT !.pc = "except"]
    ELSE [v EXCEPT !.pc = "download"]

(* From a status just received up to the next await: the while loop's test and  *)
(* time-out, then the checks of the final status.                               *)
VideoLoop(v) ==
    IF v.status \in {"queued", "in_progress"}
    THEN IF v.poll_count >= max_polls
         THEN [v EXCEPT !.pc = "except"]
         ELSE [v EXCEPT !.pc = "retrieve"]
    ELSE IF v.status = "failed" THEN [v EXCEPT !.pc = "except"]
    ELSE IF v.status # "completed" THEN [v EXCEPT !.pc = "except"]
    ELSE [v EXCEPT !.pc = "download"]

(* The finally clause: unlink the file when video_file_path is set and exists. *)
VideoFinally(v) ==
    IF v.video_file_path /\ v.file THEN [v EXCEPT !.file = FALSE] ELSE v

(* await ctx.defer(), up to videos.create *)
GenerateVideoInvoke ==
    /\ video = NoVideo
    /\ video' = [ pc |-> "create", status |-> "none", poll_count |-> 0, retrieves |-> 0,
                  video_file_path |-> FALSE, file |-> FALSE, replies |-> <<>>,
                  send_failures |-> 0 ]
    /\ UNCHANGED <<cogVars, call, result, image, speech>>

(* videos.create returned a job with this status. *)
VideoCreateOk(status) ==
    /\ video.pc = "create"
    /\ video' = VideoLoop([video EXCEPT !.status = status])
    /\ UNCHANGED <<cogVars, call, result, image, speech>>

(* After the sleep, videos.retrieve returned this status. *)
VideoRetrieveOk(status) ==
    /\ video.pc = "retrieve"
    /\ video' = VideoLoop([video EXCEPT !.status = status,
                                        !.poll_count = @ + 1,
                                        !.retrieves = @ + 1])
    /\ UNCHANGED <<cogVars, call, result, image, speech>>

(* videos.create, videos.retrieve, the download or the send raised. *)
VideoFail ==
    /\ video.pc \in {"create", "retrieve", "download", "send"}
    /\ video' = [video EXCEPT
          !.pc = "except",
          !.retrieves = IF video.pc = "retrieve" THEN @ + 1 ELSE @,
          !.send_failures = IF video.pc = "send" THEN @ + 1 ELSE @]
    /\ UNCHANGED <<cogVars, call, result, image, speech>>

(* The content was downloaded and written; the handler awaits send_followup. *)
VideoDownloadOk ==
    /\ video.pc = "download"
    /\ video' = [video EXCEPT !.video_file_path = TRUE, !.file = TRUE, !.pc = "send"]
    /\ UNCHANGED <<cogVars, call, result, image, speech>>

(* send_followup delivered the video, then the finally clause. *)
VideoSendOk ==
    /\ video.pc = "send"
    /\ video' = VideoFinally([video EXCEPT !.replies = Append(@, "video"), !.pc = "done"])
    /\ UNCHANGED <<cogVars, call, result, image, speech>>

(* The error reply of the except clause was delivered or raised, then the       *)
(* finally clause.                                                              *)
VideoExcept(sent) ==
    /\ video.pc = "except"
    /\ video' = VideoFinally([video EXCEPT
          !.replies = IF sent THEN Append(@, "error") ELSE @,
          !.send_failures = IF sent THEN @ ELSE @ + 1,
          !.pc = "done"])
    /\ UNCHANGED <<cogVars, call, result, image, speech>>

NextVideo ==
    \/ GenerateVideoInvoke
    \/ \E status \in VideoStatuses : VideoCreateOk(status)
    \/ \E status \in VideoStatuses : VideoRetrieveOk(status)
    \/ VideoFail
    \/ VideoDownloadOk
    \/ VideoSendOk
    \/ \E sent \in BOOLEAN : VideoExcept(sent)

(* Every awaited call returns or raises, and the event loop resumes the handler. *)
SpecVideo == Init /\ [][NextVideo]_vars /\ WF_vars(NextVideo)

----------------------------------------------------------------------------
(* Properties *)

Range(f) == { f[x] : x \in DOMAIN f }

(* The registered conversations started by `user` in `channel`. *)
ConversationsOf(user, channel) ==
    { k \in DOMAIN conversation_histories :
        /\ conversation_histories[k].conversation_starter = user
        /\ conversation_histories[k].channel_id = channel }

PressOf(user, view) ==
    RegenerateButton(user, view) \/ PlayPauseButton(user, view) \/ StopButton(user, view)

(* C1: conversation_histories never holds two conversations with the same        *)
(* conversation_starter and channel_id.                                          *)
C1_OnePerStarterAndChannel ==
    \A i, j \in DOMAIN conversation_histories :
        ( /\ conversation_histories[i].conversation_starter
               = conversation_histories[j].conversation_starter
          /\ conversation_histories[i].channel_id = conversation_histories[j].channel_id )
        => i = j

(* C2: when a /converse invocation of user u in channel c passes its check while  *)
(* a conversation of (u, c) is registered, it answers "already active", has made  *)
(* no provider call, and conversation_histories and views are as before.          *)
C2_SecondStartRejected ==
    [][ \A i \in DOMAIN invocations :
          ( /\ invocations[i].pc = "deferred"
            /\ invocations'[i].pc # "deferred"
            /\ ConversationsOf(invocations[i].author, invocations[i].channel_id) # {} )
          => /\ invocations'[i].pc = "done"
             /\ invocations'[i].reply = "already_active"
             /\ invocations'[i].calls = 0
             /\ UNCHANGED <<conversation_histories, views, responses>> ]_vars

(* A second /converse of the same user in the same channel was rejected while the *)
(* first conversation is registered.                                              *)
C2_Witness ==
    \E i \in DOMAIN invocations :
        /\ invocations[i].reply = "already_active"
        /\ invocations[i].calls = 0
        /\ ConversationsOf(invocations[i].author, invocations[i].channel_id) # {}

(* C3: while a conversation of (u, c) is paused, an inbound message of u in c is  *)
(* dropped without a provider call; when u's conversation in c is not paused the  *)
(* message is handled with one provider call.                                     *)
C3_PausedMessagesDropped ==
    [][ \A u \in Users, c \in Channels :
          OnMessage(u, c) =>
            /\ (\E k \in ConversationsOf(u, c) : conversation_histories[k].paused)
                  => (tasks' = tasks /\ last'.reply = "paused")
            /\ ( /\ ConversationsOf(u, c) # {}
                 /\ \A k \in ConversationsOf(u, c) : ~conversation_histories[k].paused )
                  => (Len(tasks') = Len(tasks) + 1 /\ tasks'[Len(tasks')].calls = 1) ]_vars

(* C4: regenerate, pressed by the starter on a registered conversation with a     *)
(* completed exchange, pops the last entry of response_id_history and re-issues   *)
(* the provider call with the identifier that preceded the dropped one.           *)
C4_RegenerateRollsBack ==
    [][ \A u \in Users, v \in controls :
          ( /\ u = v.conversation_starter
            /\ Registered(v.conversation_id)
            /\ Len(conversation_histories[IndexOf(v.conversation_id)].response_id_history) >= 1
            /\ RegenerateButton(u, v) )
          => LET k == IndexOf(v.conversation_id)
                 h == conversation_histories[k].response_id_history
             IN /\ conversation_histories'[k].response_id_history = SubSeq(h, 1, Len(h) - 1)
                /\ Len(tasks') = Len(tasks) + 1
                /\ tasks'[Len(tasks')].request.previous_response_id
                      = IF Len(h) >= 2 THEN h[Len(h) - 1] ELSE 0 ]_vars

(* C6: a press of any button by a user other than the conversation starter is     *)
(* answered "not allowed", whether or not the conversation still exists, issues   *)
(* no provider call and changes no conversation.                                  *)
C6_OtherUsersNotAllowed ==
    [][ \A u \in Users, v \in controls :
          (u # v.conversation_starter /\ PressOf(u, v))
          => /\ last'.reply = "not_allowed"
             /\ UNCHANGED <<conversation_histories, views, controls, invocations,
                            tasks, responses>> ]_vars

(* Another user pressed stop on the controls of a conversation that was started   *)
(* and has been ended, and was answered "not allowed".                            *)
C6_Witness ==
    /\ last.op = "stop"
    /\ last.reply = "not_allowed"
    /\ last.conversation_id \in DOMAIN invocations
    /\ invocations[last.conversation_id].reply = "started"
    /\ invocations[last.conversation_id].author # last.user
    /\ ~Registered(last.conversation_id)

C8_StopEndsConversation ==
    [][ \A u \in Users, v \in controls :
          /\ (u = v.conversation_starter /\ Registered(v.conversation_id) /\ StopButton(u, v))
                => LET c == conversation_histories[IndexOf(v.conversation_id)].channel_id
                   IN /\ \A k \in DOMAIN conversation_histories' :
                            conversation_histories'[k].conversation_id # v.conversation_id
                      /\ \A k \in DOMAIN conversation_histories' :
                            ~MatchesMessage(conversation_histories'[k], u, c)
          /\ ( /\ u = v.conversation_starter
               /\ ~Registered(v.conversation_id)
               /\ invocations[v.conversation_id].reply = "started"
               /\ PressOf(u, v) )
                => /\ last'.reply = "not_found"
                   /\ UNCHANGED <<conversation_histories, views, controls, invocations,
                                  tasks, responses>> ]_vars

(* C9: a run of handle_new_message_in_conversation that ended without its reply   *)
(* (the provider call or the reply failed) left its conversation as it found it:  *)
(* the conversation holds no response id of that run.                             *)
C9_FailedHandlerLeavesNoTrace ==
    \A t \in DOMAIN tasks :
        ( /\ tasks[t].pc \in {"done", "raised"}
          /\ tasks[t].reply # "response"
          /\ Registered(tasks[t].conversation_id) )
        => LET conversation == conversation_histories[IndexOf(tasks[t].conversation_id)]
           IN /\ conversation.previous_response_id # tasks[t].response_id
              /\ tasks[t].response_id \notin Range(conversation.response_id_history)

(* C10: once handle_new_message_in_conversation has returned or raised, its       *)
(* keep_typing task is cancelled; it runs while the handler runs.                 *)
C10_TypingCancelledOnExit ==
    \A t \in DOMAIN tasks :
        IF tasks[t].pc \in {"done", "raised"}
        THEN tasks[t].typing_task = "cancelled"
        ELSE tasks[t].typing_task = "running"

(* A handler whose reply failed and whose error reply failed too has raised, with *)
(* its keep_typing task cancelled.                                                *)
C10_Witness ==
    \E t \in DOMAIN tasks :
        /\ tasks[t].pc = "raised"
        /\ tasks[t].response_id # 0
        /\ tasks[t].typing_task = "cancelled"

(* C11: assuming the sends to the chat platform succeed, a handled event issues   *)
(* its provider call at most once and ends having sent exactly one reply; here    *)
(* for a /generate_image invocation.                                              *)
C11_OneCallOneReply ==
    (image.pc = "done" /\ image.send_failures = 0)
        => (image.calls <= 1 /\ Len(image.replies) = 1)

(* C12: within one conversation the response ids stand in response_id_history in *)
(* the order in which on_message processed the messages that triggered them (the  *)
(* order of `tasks`), also when the handlers of two messages overlap.             *)
C12_HistoryInProcessingOrder ==
    \A t1, t2 \in DOMAIN tasks :
        ( /\ t1 < t2
          /\ tasks[t1].conversation_id = tasks[t2].conversation_id
          /\ tasks[t1].response_id # 0
          /\ tasks[t2].response_id # 0
          /\ Registered(tasks[t1].conversation_id) )
        => LET h == conversation_histories[IndexOf(tasks[t1].conversation_id)]
                        .response_id_history
           IN \A p1, p2 \in DOMAIN h :
                 (h[p1] = tasks[t1].response_id /\ h[p2] = tasks[t2].response_id)
                 => p1 < p2

(* C13: a registered conversation leaves conversation_histories only by a stop  *)
(* pressed by its starter on its own controls; every other step keeps it, with    *)
(* its starter, channel, model and generation parameters.                         *)
C13_RemovedOnlyByStop ==
    [][ \A k \in DOMAIN conversation_histories :
          LET c == conversation_histories[k]
              kept == { j \in DOMAIN conversation_histories' :
                          conversation_histories'[j].conversation_id = c.conversation_id }
          IN /\ kept = {} =>
                  /\ ButtonView(c.conversation_starter, c.conversation_id) \in controls
                  /\ last' = Observed("stop", c.conversation_starter, "none",
                                      c.conversation_id, "ended")
             /\ Cardinality(kept) <= 1
             /\ \A j \in kept :
                  /\ conversation_histories'[j].conversation_starter = c.conversation_starter
                  /\ conversation_histories'[j].channel_id = c.channel_id
                  /\ conversation_histories'[j].model = c.model
                  /\ conversation_histories'[j].temperature = c.temperature
                  /\ conversation_histories'[j].top_p = c.top_p
                  /\ conversation_histories'[j].reasoning = c.reasoning ]_vars

(* A conversation is still registered after a handler of one of its messages      *)
(* failed, a second /converse ended, and another user pressed stop on its         *)
(* controls.                                                                      *)
C13_Witness ==
    /\ last.op = "stop"
    /\ last.reply = "not_allowed"
    /\ Registered(last.conversation_id)
    /\ \E t \in DOMAIN tasks :
          /\ tasks[t].conversation_id = last.conversation_id
          /\ tasks[t].pc = "raised"
    /\ \E i \in DOMAIN invocations :
          i # last.conversation_id /\ invocations[i].pc = "done"

(* The sampling keys of a provider request for a conversation started with      *)
(* `given`: a reasoning model gets no temperature, no top_p and a reasoning        *)
(* effort; another model gets the temperature and top_p given, when given, and no  *)
(* reasoning.                                                                      *)
CarriesSampling(payload, given) ==
    IF given.model \in REASONING_MODELS
    THEN /\ "temperature" \notin DOMAIN payload
         /\ "top_p" \notin DOMAIN payload
         /\ "reasoning" \in DOMAIN payload
         /\ payload.reasoning = "medium"
    ELSE /\ "reasoning" \notin DOMAIN payload
         /\ \A k \in {"temperature", "top_p"} :
               IF given[k] = "None" THEN k \notin DOMAIN payload
               ELSE k \in DOMAIN payload /\ payload[k] = given[k]

(* The keys handle_new_message_in_conversation put in api_params (lines 115-137). *)
SentSampling(request) ==
    [ k \in { j \in {"temperature", "top_p", "reasoning"} : request[j] # "None" }
        |-> request[k] ]

(* C19: the first provider call of a conversation and every follow-up call carry  *)
(* the sampling parameters fixed at creation (none but a reasoning effort for a    *)
(* reasoning model, the given temperature and top_p otherwise), and a registered   *)
(* conversation keeps the model and parameters it was created with.               *)
C19_ParametersFixedAtCreation ==
    /\ \A i \in DOMAIN invocations :
          invocations[i].pc = "provider" =>
             /\ ResponseToDict(invocations[i].params[1]).model = invocations[i].args.model
             /\ CarriesSampling(ResponseToDict(invocations[i].params[1]), invocations[i].args)
    /\ \A t \in DOMAIN tasks :
          /\ tasks[t].request.model = invocations[tasks[t].conversation_id].args.model
          /\ CarriesSampling(SentSampling(tasks[t].request),
                             invocations[tasks[t].conversation_id].args)
    /\ \A k \in DOMAIN conversation_histories :
          LET c == conversation_histories[k]
              given == invocations[c.conversation_id].args
          IN /\ c.model = given.model
             /\ CarriesSampling(SentSampling(c), given)

(* Follow-up calls were made both for a conversation with a reasoning model and   *)
(* for one with another model that was given a top_p only.                        *)
C19_Witness ==
    /\ \E t \in DOMAIN tasks :
          /\ tasks[t].request.model \in REASONING_MODELS
          /\ invocations[tasks[t].conversation_id].args.temperature # "None"
          /\ tasks[t].pc = "done"
    /\ \E t \in DOMAIN tasks :
          /\ tasks[t].request.model \notin REASONING_MODELS
          /\ tasks[t].request.top_p # "None"

(* The concatenation of a sequence of texts. *)
RECURSIVE Flatten(_)
Flatten(texts) == IF texts = <<>> THEN <<>> ELSE Head(texts) \o Flatten(Tail(texts))

(* The embeds a call of append_response_embeds appended, and their descriptions  *)
(* joined.                                                                       *)
Appended == SubSeq(result, Len(call.embeds) + 1, Len(result))

AppendedText == Flatten([k \in DOMAIN Appended |-> Appended[k].description])

(* The budget of line 40 for the list the call was given. *)
Budget == 6000 - current_total(call.embeds) - 100

EndsWith(text, suffix) ==
    /\ Len(text) >= Len(suffix)
    /\ SubSeq(text, Len(text) - Len(suffix) + 1, Len(text)) = suffix

(* C14: after append_response_embeds the titles and descriptions of all embeds   *)
(* in the list add up to at most 6000 characters.                                *)
C14_TotalWithinLimit ==
    call.fn = "append_response_embeds" => current_total(result) <= 6000

(* C15, as claimed: the response is truncated exactly when it is longer than the *)
(* remaining budget; a text within the budget is appended whole, and for a text  *)
(* over the budget the description of the last new embed ends with the           *)
(* truncation notice.                                                            *)
C15_LastEmbedEndsWithNotice ==
    call.fn = "append_response_embeds" =>
        IF Len(call.response_text) > Budget
        THEN /\ Appended # <<>>
             /\ EndsWith(Appended[Len(Appended)].description, TruncationNotice)
        ELSE AppendedText = call.response_text

(* C15, amended: a text within the budget is appended whole, however many        *)
(* segments it needs; a text over the budget is cut to a prefix (shorter than    *)
(* the text unless the text is empty) followed by the truncation notice, and it  *)
(* is the new descriptions joined that end with the notice.                      *)
C15_TruncatedIffOverBudget ==
    call.fn = "append_response_embeds" =>
        IF Len(call.response_text) > Budget
        THEN /\ EndsWith(AppendedText, TruncationNotice)
             /\ \/ Len(AppendedText) - Len(TruncationNotice) < Len(call.response_text)
                \/ AppendedText = TruncationNotice /\ call.response_text = <<>>
             /\ SubSeq(AppendedText, 1, Len(AppendedText) - Len(TruncationNotice))
                  = SubSeq(call.response_text, 1, Len(AppendedText) - Len(TruncationNotice))
        ELSE AppendedText = call.response_text

(* A text shorter than the per-segment cap but over the remaining budget was     *)
(* truncated.                                                                    *)
C15_Witness ==
    /\ call.fn = "append_response_embeds"
    /\ Len(call.response_text) < CHUNK_TEXT_SIZE
    /\ Len(call.response_text) > Budget
    /\ Budget >= 50
    /\ EndsWith(AppendedText, TruncationNotice)
    /\ AppendedText # call.response_text

(* C16: the slices chunk_text returns, joined in order, are the text; each has   *)
(* between 1 and size characters and all but the last exactly size; there are    *)
(* ceil(len(text) / size) of them, none for the empty text.                      *)
C16_ChunksPartitionText ==
    call.fn = "chunk_text" =>
        /\ Flatten(result) = call.text
        /\ \A k \in DOMAIN result :
              /\ Len(result[k]) >= 1
              /\ Len(result[k]) <= call.size
              /\ k < Len(result) => Len(result[k]) = call.size
        /\ Len(result) = (Len(call.text) + call.size - 1) \div call.size
        /\ call.text = <<>> => result = <<>>

(* A text that is not a multiple of the size was split into several slices. *)
C16_Witness ==
    /\ call.fn = "chunk_text"
    /\ Len(call.text) > call.size
    /\ Len(call.text) % call.size # 0
    /\ Len(result) >= 2
    /\ Len(result[Len(result)]) < call.size

(* C17: the k-th embed one call appends is titled "Response" for k = 1 and       *)
(* "Response (Part k)" for k >= 2, whatever the list held before.                *)
C17_TitlesNumbered ==
    call.fn = "append_response_embeds" =>
        \A k \in DOMAIN Appended :
            Appended[k].title =
                IF k = 1 THEN "Response" ELSE "Response (Part " \o ToString(k) \o ")"

(* A call appended three embeds to a list that already held two. *)
C17_Witness ==
    /\ call.fn = "append_response_embeds"
    /\ Len(call.embeds) = 2
    /\ Len(Appended) = 3
    /\ Appended[3].title = "Response (Part 3)"

(* C18: append_response_embeds with an empty response text appends nothing.      *)
C18_EmptyTextAppendsNothing ==
    (call.fn = "append_response_embeds" /\ call.response_text = <<>>)
        => result = call.embeds

(* C20: to_dict of ChatCompletionParameters carries temperature 1.0 and no top_p *)
(* for a model in REASONING_MODELS, and for another model the temperature and    *)
(* top_p passed, each left out when it is None.                                  *)
C20_ChatSamplingByModel ==
    call.fn = "ChatCompletionParameters.to_dict" =>
        IF call.model \in REASONING_MODELS
        THEN /\ "temperature" \in DOMAIN result
             /\ result.temperature = "1.0"
             /\ "top_p" \notin DOMAIN result
        ELSE \A k \in {"temperature", "top_p"} :
                IF call[k] = "None" THEN k \notin DOMAIN result
                ELSE k \in DOMAIN result /\ result[k] = call[k]

(* to_dict was taken of parameters built for a reasoning model with another      *)
(* temperature and a top_p passed.                                               *)
C20_Witness ==
    /\ call.fn = "ChatCompletionParameters.to_dict"
    /\ call.model \in REASONING_MODELS
    /\ call.temperature = "0.7"
    /\ call.top_p = "0.9"
    /\ result.temperature = "1.0"

(* C21: the first request of a conversation started with a reasoning model has  *)
(* no instructions and carries the persona inside the user input; for another     *)
(* model the persona is sent as instructions and the input is the prompt alone.  *)
C21_PersonaFoldedForReasoning ==
    (call.fn = "converse" /\ call.persona # "" /\ call.prompt # "")
        => IF call.model \in REASONING_MODELS
           THEN /\ "instructions" \notin DOMAIN result
                /\ call.attachment = "None" => result.input # call.prompt
           ELSE /\ "instructions" \in DOMAIN result
                /\ result.instructions = call.persona
                /\ call.attachment = "None" => result.input = call.prompt

(* C22: ImageGenerationParameters turns the default quality medium into hd for   *)
(* dall-e-3 and standard for dall-e-2 and keeps every other quality; its         *)
(* to_dict() holds response_format only for dall-e-2 and dall-e-3 when a format  *)
(* was given, and holds no key whose value is None.                              *)
C22_ImageParametersByModel ==
    call.fn = "ImageGenerationParameters.to_dict" =>
        /\ result.params.quality =
              IF call.quality = "medium" /\ call.model = "dall-e-3" THEN "hd"
              ELSE IF call.quality = "medium" /\ call.model = "dall-e-2" THEN "standard"
              ELSE call.quality
        /\ "response_format" \in DOMAIN result.payload
              <=> (call.model \in {"dall-e-2", "dall-e-3"} /\ call.response_format # "None")
        /\ "response_format" \in DOMAIN result.payload
              => result.payload.response_format = call.response_format
        /\ \A k \in {"quality", "size", "style"} :
              IF result.params[k] = "None" THEN k \notin DOMAIN result.payload
              ELSE k \in DOMAIN result.payload /\ result.payload[k] = result.params[k]
        /\ result.payload.model = call.model
        /\ result.payload.n = call.n

(* to_dict was taken of parameters for a GPT image model that was given a        *)
(* response format and no style, with the default quality.                       *)
C22_Witness ==
    /\ call.fn = "ImageGenerationParameters.to_dict"
    /\ call.model = "gpt-image-1"
    /\ call.response_format = "url"
    /\ call.quality = "medium"
    /\ call.style = "None"
    /\ DOMAIN result.payload = {"model", "n", "quality"}

(* C23: the controls sent with a follow-up reply hold the conversation_id of the *)
(* conversation the reply belongs to (the start reply of /converse carries the    *)
(* view built for its own interaction id).                                        *)
C23_ControlsOfOwnConversation ==
    \A t \in DOMAIN tasks :
        \A j \in DOMAIN tasks[t].view :
            tasks[t].view[j].conversation_id = tasks[t].conversation_id

(* C24: over a step in which a conversation is and stays paused, its             *)
(* previous_response_id and response_id_history do not change and no generated    *)
(* reply is sent for it.                                                          *)
C24_PausedConversationFrozen ==
    [][ \A k \in DOMAIN conversation_histories :
          LET c == conversation_histories[k]
              after == { j \in DOMAIN conversation_histories' :
                           conversation_histories'[j].conversation_id = c.conversation_id }
          IN (c.paused /\ \A j \in after : conversation_histories'[j].paused)
             => /\ \A j \in after :
                     /\ conversation_histories'[j].previous_response_id = c.previous_response_id
                     /\ conversation_histories'[j].response_id_history = c.response_id_history
                /\ \A t \in DOMAIN tasks :
                     (tasks[t].conversation_id = c.conversation_id /\ tasks[t].reply # "response")
                     => tasks'[t].reply # "response" ]_vars

(* C25: every registered conversation has a non-empty response_id_history whose *)
(* last element is its previous_response_id, and a step changes the history of a  *)
(* conversation only by appending the id of the response just received.           *)
C25_HistoryEndsWithPrevious ==
    [][ /\ \A j \in DOMAIN conversation_histories' :
             LET h == conversation_histories'[j].response_id_history
             IN /\ h # <<>>
                /\ h[Len(h)] = conversation_histories'[j].previous_response_id
        /\ \A k \in DOMAIN conversation_histories :
           \A j \in DOMAIN conversation_histories' :
             (conversation_histories'[j].conversation_id
                 = conversation_histories[k].conversation_id)
             => \/ conversation_histories'[j].response_id_history
                      = conversation_histories[k].response_id_history
                \/ /\ responses' = responses + 1
                   /\ conversation_histories'[j].response_id_history
                         = Append(conversation_histories[k].response_id_history, responses')
      ]_vars

(* A conversation has received two follow-up responses after its first one. *)
C25_Witness ==
    \E k \in DOMAIN conversation_histories :
        LET h == conversation_histories[k].response_id_history
        IN /\ Len(h) = 3
           /\ h[3] = conversation_histories[k].previous_response_id
           /\ \E t \in DOMAIN tasks :
                 /\ tasks[t].conversation_id = conversation_histories[k].conversation_id
                 /\ tasks[t].response_id = h[3]

(* C26: a conversation is registered only by an invocation whose start reply was *)
(* delivered, and an invocation that ended with the error reply has left          *)
(* conversation_histories and views without any entry of its own.                 *)
C26_FailedStartLeavesRegistry ==
    /\ \A k \in DOMAIN conversation_histories :
          invocations[conversation_histories[k].conversation_id].reply = "started"
    /\ \A i \in DOMAIN invocations :
          (invocations[i].pc = "done" /\ invocations[i].reply = "error")
          => /\ ~Registered(i)
             /\ \A author \in DOMAIN views : views[author].conversation_id # i

(* C27: a step starts at most one handler, with one provider call, and only for  *)
(* an inbound message whose author is not the bot and for whose channel and       *)
(* author a conversation that is not paused is registered; a started handler       *)
(* never makes another call.                                                      *)
C27_CallsOnlyForActiveConversation ==
    [][ /\ Len(tasks') > Len(tasks) =>
             /\ Len(tasks') = Len(tasks) + 1
             /\ tasks'[Len(tasks')].calls = 1
             /\ last'.op = "on_message"
             /\ last'.user # BotUser
             /\ tasks'[Len(tasks')].author = last'.user
             /\ \E k \in DOMAIN conversation_histories :
                   /\ conversation_histories[k].channel_id = last'.channel
                   /\ conversation_histories[k].conversation_starter = last'.user
                   /\ ~conversation_histories[k].paused
        /\ \A t \in DOMAIN tasks : tasks'[t].calls = tasks[t].calls
        /\ (last'.op = "on_message" /\ last'.user = BotUser) => tasks' = tasks ]_vars

(* A message was handled, with one call, while two conversations of its author   *)
(* in its channel were registered.                                               *)
C27_Witness ==
    /\ last.op = "on_message"
    /\ last.reply = "handling"
    /\ Cardinality(ConversationsOf(last.user, last.channel)) = 2
    /\ Len(tasks) = 1
    /\ tasks[1].calls = 1

(* C28: while an invocation of text_to_speech or speech_to_text has written its *)
(* file and not yet sent it, its path names a file holding its own bytes; the   *)
(* file it sends holds its own bytes; and once it has finished no file holds    *)
(* its bytes under its path.                                                    *)
C28_TemporaryFilePrivate ==
    \A i \in DOMAIN speech.invocations :
        LET inv == speech.invocations[i]
            mine == /\ speech.files[inv.path] # 0
                    /\ speech.contents[speech.files[inv.path]] = i
        IN /\ (inv.speech_file_path /\ inv.pc \in {"provider", "send"}) => mine
           /\ \A r \in DOMAIN inv.replies :
                 inv.replies[r].kind = "file" => inv.replies[r].content = i
           /\ inv.pc = "done" => ~mine

(* What C29 says of every state, with the reply decided by `sends_video`. *)
VideoSafe(sends_video) ==
    video # NoVideo =>
        /\ video.retrieves <= max_polls
        /\ video.pc = "done" =>
              /\ ~video.file
              /\ video.send_failures = 0 =>
                    /\ Len(video.replies) = 1
                    /\ video.replies[1] = (IF sends_video THEN "video" ELSE "error")

(* C29 as stated: at most 60 retrievals, termination, the file deleted at the    *)
(* end and, when no send fails, one reply: the video if the final status is      *)
(* "completed", an error reply otherwise.                                        *)
C29_VideoIffCompleted ==
    /\ [](VideoSafe(video.status = "completed"))
    /\ <>(video.pc = "done")

(* C29, amended: the one reply is the video if the final status is "completed"   *)
(* and the download succeeded, an error reply otherwise.                         *)
C29_VideoIffDownloaded ==
    /\ [](VideoSafe(video.status = "completed" /\ video.video_file_path))
    /\ <>(video.pc = "done")

(* The job was still in progress after 60 retrievals and the invocation ended    *)
(* with the error reply.                                                         *)
C29_Witness ==
    /\ video.pc = "done"
    /\ video.retrieves = max_polls
    /\ video.status = "in_progress"
    /\ video.replies = <<"error">>

(* The arguments of the invocation that C30 says never reach the provider. *)
ImageArgumentsRefused ==
    \/ image.model = "dall-e-3" /\ image.n > 1
    \/ image.model = "dall-e-2" /\ image.n > 10
    \/ image.model = "dall-e-2" /\ image.size \in {"1024x1792", "1792x1024"}
    \/ image.model = "dall-e-3" /\ image.size \in {"256x256", "512x512"}

(* C30: generate_image issues no provider call for dall-e-3 with n > 1, dall-e-2 *)
(* with n > 10, dall-e-2 with a 1024x1792 or 1792x1024 size or dall-e-3 with a   *)
(* 256x256 or 512x512 size, and answers them with an error reply; a request it   *)
(* issues carries style only for dall-e-3, a quality of standard or hd for       *)
(* dall-e-3, of low, medium, high or auto for the gpt-image models, and neither  *)
(* quality nor style for dall-e-2.                                              *)
C30_ImageRequestsValid ==
    image # NoImage =>
        /\ ImageArgumentsRefused =>
              /\ image.calls = 0
              /\ image.request = <<>>
              /\ (image.pc = "done" /\ image.send_failures = 0)
                    => image.replies = <<"error">>
        /\ \A r \in DOMAIN image.request :
              LET request == image.request[r]
                  keys == DOMAIN request
              IN /\ request.model = image.model
                 /\ request.n = image.n
                 /\ "style" \in keys => request.model = "dall-e-3"
                 /\ request.model = "dall-e-3" =>
                       "quality" \in keys /\ request.quality \in {"standard", "hd"}
                 /\ request.model \in {"gpt-image-1", "gpt-image-1-mini"} =>
                       /\ "quality" \in keys
                       /\ request.quality \in {"low", "medium", "high", "auto"}
                 /\ request.model = "dall-e-2" =>
                       "quality" \notin keys /\ "style" \notin keys

(* A request for dall-e-2 was issued from an invocation that named a quality    *)
(* and a style, and carries neither.                                            *)
C30_Witness ==
    /\ image # NoImage
    /\ image.model = "dall-e-2"
    /\ image.quality = "hd"
    /\ image.style = "vivid"
    /\ image.calls = 1
    /\ Len(image.request) = 1
    /\ DOMAIN image.request[1] = {"model", "n", "size", "response_format"}

====
